---- MODULE Spec2Model ----
(***************************************************************************)
(* Model of the recipe deployment handler (azureRecipeHandler.DeployRecipe *)
(* with getDigestFromManifest and getRecipeBytes).  One invocation is a    *)
(* sequential process whose steps are the blocking collaborator calls; the *)
(* registry, the deployment backend and the clock are the environment.     *)
(* Strings are sequences of one-character strings, error values carry the  *)
(* message text as a sequence of message pieces.                           *)
(***************************************************************************)
EXTENDS Integers, Sequences, FiniteSets, TLC

\* ------------------------------------------------------------------ bounds
MaxLen == 3
MaxClock == 2
MaxLayers == 2
MaxOutputs == 2

\* --------------------------------------------------------------- constants
deplmtPrefix == "recipe"

Invocations == {1, 2}
Chars == {"r", ":"}
Digests == {"sha256:ab", "sha256:cd"}
ResourceIDs == {"/subscriptions/s/bus1", "/subscriptions/s/bus2"}
NilID == "<nil>"
ProvisioningStates == {"Succeeded", "Failed", "Canceled", "Running"}

TemplatePaths == UNION {[1..n -> Chars] : n \in 0..MaxLen}

\* ------------------------------------------------------------------ errors
NilErr == [nil |-> TRUE, msg |-> <<>>]
NewErr(msg) == [nil |-> FALSE, msg |-> msg]

\* fmt.Errorf("<prefix> %s", err.Error()): the prefix followed by the text
\* of the cause
Errorf(prefix, err) == NewErr(<<prefix>> \o err.msg)

\* the errors a collaborator (registry client, deployment client) can return
CollaboratorErrors == {NewErr(<<"transport error">>)}
CollaboratorOutcomes == {NilErr} \cup CollaboratorErrors

\* ctx.Err() of a cancelled context, as a call that was given ctx returns it
CtxErr == NewErr(<<"context canceled">>)

\* ----------------------------------------------------------- pure helpers
RECURSIVE Split(_)
\* strings.Split(s, ":")
Split(s) ==
  IF \A k \in 1..Len(s) : s[k] # ":"
  THEN <<s>>
  ELSE LET k == CHOOSE j \in 1..Len(s) :
                  s[j] = ":" /\ \A m \in 1..(j-1) : s[m] # ":"
       IN <<SubSeq(s, 1, k-1)>> \o Split(SubSeq(s, k+1, Len(s)))

Digit(d) ==
  CASE d = 0 -> "0" [] d = 1 -> "1" [] d = 2 -> "2" [] d = 3 -> "3"
    [] d = 4 -> "4" [] d = 5 -> "5" [] d = 6 -> "6" [] d = 7 -> "7"
    [] d = 8 -> "8" [] d = 9 -> "9"

RECURSIVE FormatInt(_)
\* strconv.FormatInt(n, 10) for n >= 0
FormatInt(n) ==
  IF n < 10 THEN <<Digit(n)>> ELSE FormatInt(n \div 10) \o <<Digit(n % 10)>>

\* deplmtPrefix + strconv.FormatInt(time.Now().UnixNano(), 10)
deploymtName(now) == <<deplmtPrefix>> \o FormatInt(now)

\* ------------------------------------------------------- manifest documents
\* The bytes of a manifest, described by what json.Unmarshal makes of them:
\*   json   - "invalid" (not JSON), "nonobject" (JSON, not an object),
\*            "null" (the JSON null: no error, the map stays nil), "object"
\*   layers - the kind of the "layers" member of the object
\*   n      - the length of the layers array
\*   first  - the kind of element 0 of the layers array
\*   dig    - the kind of the "digest" member of element 0
\*   digVal - the digest string
NoDoc ==
  [json |-> "none", layers |-> "absent", n |-> 0, first |-> "none",
   dig |-> "absent", digVal |-> ""]

ManifestDocs ==
  { d \in [json : {"invalid", "nonobject", "null", "object"},
           layers : {"absent", "null", "string", "array"},
           n : 0..MaxLayers,
           first : {"none", "null", "string", "object"},
           dig : {"absent", "number", "string"},
           digVal : Digests \cup {""}] :
      /\ (d.json # "object" => d.layers = "absent")
      /\ (d.layers # "array" => d.n = 0)
      /\ (d.n = 0 <=> d.first = "none")
      /\ (d.first # "object" => d.dig = "absent")
      /\ (d.dig = "string" <=> d.digVal # "") }

\* the bytes of the blob, by what json.Unmarshal into a map makes of them
TemplateDocs == {"invalid", "nonobject", "null", "object"}

\* json.Unmarshal(bytes, &map)
jsonUnmarshal(json) ==
  IF json = "invalid" THEN NewErr(<<"invalid character">>)
  ELSE IF json = "nonobject" THEN NewErr(<<"json: cannot unmarshal">>)
  ELSE NilErr

\* layerDigest without the check of the second type assertion
layerDigest_NoDigestCheck(doc) ==
  IF ~jsonUnmarshal(doc.json).nil
  THEN [kind |-> "err", digest |-> "", err |-> jsonUnmarshal(doc.json)]
  ELSE IF doc.layers # "array"
  THEN [kind |-> "panic", digest |-> "", err |-> NilErr]
  ELSE IF doc.n = 0
  THEN [kind |-> "panic", digest |-> "", err |-> NilErr]
  ELSE IF doc.first # "object"
  THEN [kind |-> "err", digest |-> "",
        err |-> NewErr(<<"failed to decode the layers from manifest">>)]
  ELSE [kind |-> "ok", digest |-> doc.digVal, err |-> NilErr]

\* getDigestFromManifest from the decoded bytes on: the outcome is a digest,
\* an error, or a run-time panic (failed type assertion, index out of range)
layerDigest(doc) ==
  IF ~jsonUnmarshal(doc.json).nil
  THEN [kind |-> "err", digest |-> "", err |-> jsonUnmarshal(doc.json)]
  ELSE IF doc.layers # "array"
  THEN [kind |-> "panic", digest |-> "", err |-> NilErr]
  ELSE IF doc.n = 0
  THEN [kind |-> "panic", digest |-> "", err |-> NilErr]
  ELSE IF doc.first # "object"
  THEN [kind |-> "err", digest |-> "",
        err |-> NewErr(<<"failed to decode the layers from manifest">>)]
  ELSE IF doc.dig # "string"
  THEN [kind |-> "err", digest |-> "",
        err |-> NewErr(<<"failed to decode the layers digest from manifest">>)]
  ELSE [kind |-> "ok", digest |-> doc.digVal, err |-> NilErr]

\* ------------------------------------------------------ deployment results
\* resources.DeploymentExtended: Properties may be nil, OutputResources may
\* be nil, and the ID of an output resource may be nil
NoResult == [props |-> FALSE, state |-> "", present |-> FALSE, list |-> <<>>]

OutputLists == UNION {[1..n -> ResourceIDs \cup {NilID}] : n \in 0..MaxOutputs}

DeploymentResults ==
  {NoResult}
    \cup [props : {TRUE}, state : ProvisioningStates, present : {FALSE},
          list : {<<>>}]
    \cup [props : {TRUE}, state : ProvisioningStates, present : {TRUE},
          list : OutputLists]

\* extractOutputs that takes only the state Failed for a failure
extractOutputs_OnlyFailed(resp, name) ==
  IF ~resp.props
  THEN [kind |-> "panic", ids |-> <<>>, err |-> NilErr]
  ELSE IF resp.state = "Failed"
  THEN [kind |-> "return", ids |-> <<>>,
        err |-> NewErr(<<"failed to deploy recipe - ">> \o name)]
  ELSE IF ~resp.present
  THEN [kind |-> "panic", ids |-> <<>>, err |-> NilErr]
  ELSE IF \E k \in 1..Len(resp.list) : resp.list[k] = NilID
  THEN [kind |-> "panic", ids |-> <<>>, err |-> NilErr]
  ELSE [kind |-> "return", ids |-> resp.list, err |-> NilErr]

\* extractOutputs that collects the identifiers before it looks at the
\* state, and hands them back next to the error
extractOutputs_ListWithError(resp, name) ==
  IF ~resp.props
  THEN [kind |-> "panic", ids |-> <<>>, err |-> NilErr]
  ELSE IF ~resp.present
  THEN [kind |-> "panic", ids |-> <<>>, err |-> NilErr]
  ELSE IF \E k \in 1..Len(resp.list) : resp.list[k] = NilID
  THEN [kind |-> "panic", ids |-> <<>>, err |-> NilErr]
  ELSE IF resp.state # "Succeeded"
  THEN [kind |-> "return", ids |-> resp.list,
        err |-> NewErr(<<"failed to deploy recipe - ">> \o name)]
  ELSE [kind |-> "return", ids |-> resp.list, err |-> NilErr]

\* the tail of DeployRecipe, from the retrieved result on
extractOutputs(resp, name) ==
  IF ~resp.props
  THEN [kind |-> "panic", ids |-> <<>>, err |-> NilErr]
  ELSE IF resp.state # "Succeeded"
  THEN [kind |-> "return", ids |-> <<>>,
        err |-> NewErr(<<"failed to deploy recipe - ">> \o name)]
  ELSE IF ~resp.present
  THEN [kind |-> "panic", ids |-> <<>>, err |-> NilErr]
  ELSE IF \E k \in 1..Len(resp.list) : resp.list[k] = NilID
  THEN [kind |-> "panic", ids |-> <<>>, err |-> NilErr]
  ELSE [kind |-> "return", ids |-> resp.list, err |-> NilErr]

\* ------------------------------------------------------------------- state
\* inv, clock, backend: the recipe handler, the clock it reads and the
\* deployments of the backend; store, del: the stored message queue resource
\* and the delete requests on it
VARIABLES inv, clock, backend, store, del, conversion

vars == <<inv, clock, backend, store, del, conversion>>

\* ------------------------------------- DeleteRabbitMQMessageQueue, state
Requests == {1, 2}
ETags == {"etag-1", "etag-2"}

\* the stored resource: absent, or present with an etag (which may be empty)
NoResource == [exists |-> FALSE, etag |-> ""]
StoredResources ==
  {NoResource} \cup [exists : {TRUE}, etag : ETags \cup {""}]

\* what the storage client returns besides nil: the not-found error that
\* errors.Is(&store.ErrNotFound{}, err) recognises, and any other fault
ErrNotFound == NewErr(<<"the resource was not found">>)
ErrStorage == NewErr(<<"storage fault">>)

IdleRequest ==
  [pc |-> "idle", etag |-> "", getErr |-> NilErr, precondition |-> "unchecked",
   deleteCalled |-> FALSE, delErr |-> NilErr, deleted |-> FALSE,
   resp |-> "nil", err |-> NilErr]

\* ----------------------------------- DaprSecretStoreResource, conversion
\* a Go pointer (or map): nil, or holding a value
NilPtr == <<>>
Ptr(v) == <<v>>
String(p) == IF p = NilPtr THEN "" ELSE p[1]
StringPtr(s) == Ptr(s)

StringPtrs == {NilPtr, Ptr("s")}
MetadataMaps == {NilPtr, Ptr("m")}
KindPtrs == {NilPtr, Ptr("generic"), Ptr("other")}
\* versioned Recipe: a nil pointer, or a Recipe whose Name is nil, "" or "r"
Recipes == {NilPtr} \cup {Ptr([name |-> n]) : n \in {NilPtr, Ptr(""), Ptr("r")}}

\* the value of the Properties interface of the versioned resource: nil,
\* *ValuesDaprSecretStoreProperties, *RecipeDaprSecretStoreProperties, or
\* another implementation of the classification
NoProperties ==
  [variant |-> "nil", type |-> NilPtr, version |-> NilPtr,
   metadata |-> NilPtr, kind |-> NilPtr, recipe |-> NilPtr]

VersionedProperties ==
  {NoProperties, [NoProperties EXCEPT !.variant = "other"]}
  \cup {[variant |-> "values", type |-> t, version |-> v, metadata |-> m,
         kind |-> k, recipe |-> NilPtr] :
          t \in StringPtrs, v \in StringPtrs, m \in MetadataMaps,
          k \in KindPtrs}
  \cup {[variant |-> "recipe", type |-> t, version |-> v, metadata |-> m,
         kind |-> NilPtr, recipe |-> r] :
          t \in StringPtrs, v \in StringPtrs, m \in MetadataMaps,
          r \in Recipes}

\* datamodel.DaprSecretStoreProperties as ConvertTo first builds it
ZeroDataModel ==
  [mode |-> "", kind |-> "", type |-> "", version |-> "",
   metadata |-> NilPtr, recipe |-> [name |-> ""]]

toRecipeDataModel(r) == [name |-> String(r[1].name)]
fromRecipeDataModel(r) == Ptr([name |-> StringPtr(r.name)])

toDaprSecretStoreKindDataModel(kind) ==
  IF kind[1] = "generic" THEN "Generic" ELSE "Unknown"

fromDaprSecretStoreKindDataModel(kind) == Ptr("generic")

IdleConversion ==
  [pc |-> "src", src |-> NoProperties, dm |-> ZeroDataModel,
   dst |-> NoProperties, err |-> ""]

IdleInvocation ==
  [pc |-> "idle", templatePath |-> <<>>, registryRepo |-> <<>>, tag |-> <<>>,
   manifest |-> NoDoc, digest |-> "", recipe |-> "none", name |-> <<>>,
   resp |-> NoResult, err |-> NilErr, ctxDone |-> FALSE,
   mOpen |-> 0, mClose |-> 0, bOpen |-> 0, bClose |-> 0,
   log |-> <<>>, ret |-> [ids |-> <<>>, err |-> NilErr]]

Init ==
  /\ inv = [i \in Invocations |-> IdleInvocation]
  /\ clock = 0
  /\ backend = [n \in {} |-> [done |-> FALSE, submits |-> 0, result |-> NoResult]]
  /\ store = NoResource
  /\ del = [q \in Requests |-> IdleRequest]
  /\ conversion = IdleConversion

Return(r, ids, err) ==
  [r EXCEPT !.pc = "returned", !.ret = [ids |-> ids, err |-> err]]

Panic(r) == [r EXCEPT !.pc = "panicked"]

Called(r, call) == [r EXCEPT !.log = Append(@, call)]

\* what a call that takes the caller's ctx can return: the context's error
\* once the caller has cancelled, else a result or a fault of its own
CtxOutcomes(i) ==
  IF inv[i].ctxDone THEN {CtxErr} ELSE CollaboratorOutcomes

\* ----------------------------------------------------- DeployRecipe, steps
\* the three places where DeployRecipe wraps a callee's error
clientFailed(r, err) ==
  Return(r, <<>>, Errorf("failed to create client to registry ", err))

\* manifestFailed that hands the callee's error back as it is
manifestFailed_Bare(r, err) == Return(r, <<>>, err)

manifestFailed(r, err) ==
  Return(r, <<>>, Errorf("failed to fetch recipe manifest from registry ", err))

\* templateFailed without the return: the pipeline goes on to the submission
templateFailed_GoesOn(r, err) == [r EXCEPT !.pc = "CreateOrUpdate"]

templateFailed(r, err) ==
  Return(r, <<>>, Errorf("failed to fetch recipe template from registry ", err))

\* the places where DeployRecipe returns the callee's error as it is
bareFailed(r, err) == Return(r, <<>>, err)

\* Entry: the reference is split, then checked for emptiness, then the
\* registry client is created (remote.NewRepository, no network traffic;
\* it rejects an empty repository reference).
DeployRecipe(i, templatePath, err) ==
  /\ inv[i].pc = "idle"
  /\ (Len(Split(templatePath)) < 2 => err.nil)
  /\ (Len(Split(templatePath)) >= 2 /\ Split(templatePath)[1] = <<>>
        => ~err.nil)
  /\ LET parts == Split(templatePath)
         r0 == [inv[i] EXCEPT !.templatePath = templatePath]
     IN inv' = [inv EXCEPT ![i] =
          IF Len(parts) < 2
          THEN Panic(r0)
          ELSE LET r1 == [r0 EXCEPT !.registryRepo = parts[1],
                                    !.tag = parts[2]]
                   r2 == [Called(r1, "NewRepository") EXCEPT !.err = err]
               IN IF templatePath = <<>>
                  THEN Return(r1, <<>>, NewErr(<<"templatePath cannot be empty">>))
                  ELSE IF ~err.nil
                  THEN clientFailed(r2, err)
                  ELSE [r2 EXCEPT !.pc = "Resolve"]]
  /\ UNCHANGED <<clock, backend, store, del, conversion>>

\* Resolve in a retry loop: a failed tag resolution is tried once more
Resolve_Retry(i, err) ==
  /\ inv[i].pc = "Resolve"
  /\ err \in CtxOutcomes(i)
  /\ (inv[i].tag = <<>> => ~err.nil)
  /\ LET r == [Called(inv[i], "Resolve") EXCEPT !.err = err]
     IN inv' = [inv EXCEPT ![i] =
          IF ~err.nil
          THEN IF Len(inv[i].log) < 2 THEN r ELSE manifestFailed(r, err)
          ELSE [r EXCEPT !.pc = "Fetch"]]
  /\ UNCHANGED <<clock, backend, store, del, conversion>>

\* getDigestFromManifest: repo.Resolve(ctx, tag); the registry has no
\* manifest under the empty tag
Resolve(i, err) ==
  /\ inv[i].pc = "Resolve"
  /\ err \in CtxOutcomes(i)
  /\ (inv[i].tag = <<>> => ~err.nil)
  /\ LET r == [Called(inv[i], "Resolve") EXCEPT !.err = err]
     IN inv' = [inv EXCEPT ![i] =
          IF ~err.nil THEN manifestFailed(r, err)
          ELSE [r EXCEPT !.pc = "Fetch"]]
  /\ UNCHANGED <<clock, backend, store, del, conversion>>

\* getDigestFromManifest: repo.Fetch(ctx, descriptor); a successful Fetch
\* opens the manifest stream
Fetch(i, err) ==
  /\ inv[i].pc = "Fetch"
  /\ err \in CtxOutcomes(i)
  /\ LET r == [Called(inv[i], "Fetch") EXCEPT !.err = err]
     IN inv' = [inv EXCEPT ![i] =
          IF ~err.nil THEN manifestFailed(r, err)
          ELSE [r EXCEPT !.pc = "ReadAll", !.mOpen = @ + 1]]
  /\ UNCHANGED <<clock, backend, store, del, conversion>>

\* ReadAll with rc.Close() called at the end of the function instead of
\* deferred: the stream stays open on every early way out
ReadAll_NoDefer(i, err, doc) ==
  /\ inv[i].pc = "ReadAll"
  /\ (err.nil <=> doc # NoDoc)
  /\ LET r == [Called(inv[i], "ReadAll") EXCEPT !.err = err,
                 !.manifest = doc]
         d == layerDigest(doc)
     IN inv' = [inv EXCEPT ![i] =
          IF ~err.nil THEN manifestFailed(r, err)
          ELSE IF d.kind = "panic" THEN Panic(r)
          ELSE IF d.kind = "err"
          THEN manifestFailed([r EXCEPT !.err = d.err], d.err)
          ELSE [r EXCEPT !.pc = "BlobsResolve", !.digest = d.digest,
                         !.mClose = @ + 1]]
  /\ UNCHANGED <<clock, backend, store, del, conversion>>

\* getDigestFromManifest: content.ReadAll, json.Unmarshal, the layers and
\* digest lookups, and the deferred rc.Close(), which runs on every way out
\* of the function, a panic included
ReadAll(i, err, doc) ==
  /\ inv[i].pc = "ReadAll"
  /\ (err.nil <=> doc # NoDoc)
  /\ LET r == [Called(inv[i], "ReadAll") EXCEPT !.err = err,
                 !.manifest = doc, !.mClose = @ + 1]
         d == layerDigest(doc)
     IN inv' = [inv EXCEPT ![i] =
          IF ~err.nil THEN manifestFailed(r, err)
          ELSE IF d.kind = "panic" THEN Panic(r)
          ELSE IF d.kind = "err"
          THEN manifestFailed([r EXCEPT !.err = d.err], d.err)
          ELSE [r EXCEPT !.pc = "BlobsResolve", !.digest = d.digest]]
  /\ UNCHANGED <<clock, backend, store, del, conversion>>

\* getRecipeBytes: repo.Blobs().Resolve(ctx, layerDigest)
BlobsResolve(i, err) ==
  /\ inv[i].pc = "BlobsResolve"
  /\ err \in CtxOutcomes(i)
  /\ LET r == [Called(inv[i], "BlobsResolve") EXCEPT !.err = err]
     IN inv' = [inv EXCEPT ![i] =
          IF ~err.nil THEN templateFailed(r, err)
          ELSE [r EXCEPT !.pc = "BlobFetch"]]
  /\ UNCHANGED <<clock, backend, store, del, conversion>>

\* getRecipeBytes: repo.Fetch(ctx, descriptor); opens the blob stream
BlobFetch(i, err) ==
  /\ inv[i].pc = "BlobFetch"
  /\ err \in CtxOutcomes(i)
  /\ LET r == [Called(inv[i], "BlobFetch") EXCEPT !.err = err]
     IN inv' = [inv EXCEPT ![i] =
          IF ~err.nil THEN templateFailed(r, err)
          ELSE [r EXCEPT !.pc = "BlobReadAll", !.bOpen = @ + 1]]
  /\ UNCHANGED <<clock, backend, store, del, conversion>>

\* getRecipeBytes: content.ReadAll and the deferred rc.Close(); then, in
\* DeployRecipe, json.Unmarshal of the template and the deployment name
\* taken from the clock
BlobReadAll(i, err, template) ==
  /\ inv[i].pc = "BlobReadAll"
  /\ (err.nil <=> template # "none")
  /\ LET r == [Called(inv[i], "BlobReadAll") EXCEPT !.err = err,
                 !.recipe = template, !.bClose = @ + 1]
         e == jsonUnmarshal(template)
     IN inv' = [inv EXCEPT ![i] =
          IF ~err.nil THEN templateFailed(r, err)
          ELSE IF ~e.nil THEN bareFailed([r EXCEPT !.err = e], e)
          ELSE [r EXCEPT !.pc = "CreateOrUpdate",
                         !.name = deploymtName(clock)]]
  /\ UNCHANGED <<clock, backend, store, del, conversion>>

\* dClient.CreateOrUpdate(ctx, resourceGroupName, deploymtName, ...): an
\* accepted submission starts (or restarts) the deployment of that name
CreateOrUpdate(i, err) ==
  /\ inv[i].pc = "CreateOrUpdate"
  /\ err \in CtxOutcomes(i)
  /\ LET r == [Called(inv[i], "CreateOrUpdate") EXCEPT !.err = err]
         n == inv[i].name
     IN /\ inv' = [inv EXCEPT ![i] =
             IF ~err.nil THEN bareFailed(r, err)
             ELSE [r EXCEPT !.pc = "WaitForCompletionRef"]]
        /\ backend' =
             IF ~err.nil THEN backend
             ELSE [m \in DOMAIN backend \cup {n} |->
                     IF m = n
                     THEN [done |-> FALSE,
                           submits |-> IF n \in DOMAIN backend
                                       THEN backend[n].submits + 1 ELSE 1,
                           result |-> NoResult]
                     ELSE backend[m]]
  /\ UNCHANGED <<clock, store, del, conversion>>

\* WaitForCompletionRef given a context of its own instead of the caller's
WaitForCompletionRef_Background(i, err) ==
  /\ inv[i].pc = "WaitForCompletionRef"
  /\ err \in CollaboratorOutcomes
  /\ (err.nil => backend[inv[i].name].done)
  /\ LET r == [Called(inv[i], "WaitForCompletionRef") EXCEPT !.err = err]
     IN inv' = [inv EXCEPT ![i] =
          IF ~err.nil THEN bareFailed(r, err)
          ELSE [r EXCEPT !.pc = "Result"]]
  /\ UNCHANGED <<clock, backend, store, del, conversion>>

\* dplResp.WaitForCompletionRef(ctx, client): returns nil once the backend
\* operation is done, or an error
WaitForCompletionRef(i, err) ==
  /\ inv[i].pc = "WaitForCompletionRef"
  /\ err \in CtxOutcomes(i)
  /\ (err.nil => backend[inv[i].name].done)
  /\ LET r == [Called(inv[i], "WaitForCompletionRef") EXCEPT !.err = err]
     IN inv' = [inv EXCEPT ![i] =
          IF ~err.nil THEN bareFailed(r, err)
          ELSE [r EXCEPT !.pc = "Result"]]
  /\ UNCHANGED <<clock, backend, store, del, conversion>>

\* dplResp.Result(dClient), the provisioning-state check and the loop over
\* the output resources
Result(i, err) ==
  /\ inv[i].pc = "Result"
  /\ LET resp == IF err.nil THEN backend[inv[i].name].result ELSE NoResult
         r == [Called(inv[i], "Result") EXCEPT !.err = err, !.resp = resp]
         x == extractOutputs(resp, inv[i].name)
     IN inv' = [inv EXCEPT ![i] =
          IF ~err.nil THEN bareFailed(r, err)
          ELSE IF x.kind = "panic" THEN Panic(r)
          ELSE Return(r, x.ids, x.err)]
  /\ UNCHANGED <<clock, backend, store, del, conversion>>

\* ------------------------------------------------------------- environment
\* the deployment backend brings a submitted deployment to its end
BackendComplete(n, result) ==
  /\ n \in DOMAIN backend
  /\ ~backend[n].done
  /\ backend' = [backend EXCEPT ![n] = [@ EXCEPT !.done = TRUE,
                                                 !.result = result]]
  /\ UNCHANGED <<inv, clock, store, del, conversion>>

\* the caller cancels the context it passed to DeployRecipe
Cancel(i) ==
  /\ inv[i].pc \notin {"returned", "panicked"}
  /\ ~inv[i].ctxDone
  /\ inv' = [inv EXCEPT ![i].ctxDone = TRUE]
  /\ UNCHANGED <<clock, backend, store, del, conversion>>

\* time passes between two readings of time.Now()
Tick ==
  /\ clock < MaxClock
  /\ clock' = clock + 1
  /\ UNCHANGED <<inv, backend, store, del, conversion>>

\* ------------------------------------------------------------ specification
\* one invocation at a time
Sequential == {1}

AllOutcomes == CollaboratorOutcomes \cup {CtxErr}

Next ==
  \/ \E i \in Sequential, p \in TemplatePaths, e \in CollaboratorOutcomes :
       DeployRecipe(i, p, e)
  \/ \E i \in Sequential, e \in AllOutcomes : Resolve(i, e)
  \/ \E i \in Sequential, e \in AllOutcomes : Fetch(i, e)
  \/ \E i \in Sequential, e \in CollaboratorOutcomes,
        d \in ManifestDocs \cup {NoDoc} : ReadAll(i, e, d)
  \/ \E i \in Sequential, e \in AllOutcomes : BlobsResolve(i, e)
  \/ \E i \in Sequential, e \in AllOutcomes : BlobFetch(i, e)
  \/ \E i \in Sequential, e \in CollaboratorOutcomes,
        t \in TemplateDocs \cup {"none"} : BlobReadAll(i, e, t)
  \/ \E i \in Sequential, e \in AllOutcomes : CreateOrUpdate(i, e)
  \/ \E i \in Sequential, e \in AllOutcomes : WaitForCompletionRef(i, e)
  \/ \E i \in Sequential, e \in CollaboratorOutcomes : Result(i, e)
  \/ \E n \in DOMAIN backend, res \in DeploymentResults :
       BackendComplete(n, res)
  \/ \E i \in Sequential : Cancel(i)
  \/ Tick

Spec == Init /\ [][Next]_vars

\* a well-formed reference, manifest and set of deployment results
GoodPath == <<"r", ":", "r">>

GoodDoc ==
  [json |-> "object", layers |-> "array", n |-> 1, first |-> "object",
   dig |-> "string", digVal |-> "sha256:ab"]

ConcurrentResults ==
  { [props |-> TRUE, state |-> "Succeeded", present |-> TRUE,
     list |-> <<"/subscriptions/s/bus1">>],
    [props |-> TRUE, state |-> "Failed", present |-> FALSE, list |-> <<>>] }

\* One invocation with a well-formed reference and manifest, followed to
\* its end.  A running invocation keeps running: a call that was made
\* returns, and the completion wait returns once the operation is done or
\* the context is cancelled.  A fault of the wait's own is possible but
\* never owed.
LiveResults ==
  ConcurrentResults
    \cup { [props |-> TRUE, state |-> "Succeeded", present |-> FALSE,
            list |-> <<>>] }

Step(i) ==
  \/ \E e \in AllOutcomes : Resolve(i, e)
  \/ \E e \in AllOutcomes : Fetch(i, e)
  \/ \E e \in CollaboratorOutcomes, d \in {GoodDoc, NoDoc} : ReadAll(i, e, d)
  \/ \E e \in AllOutcomes : BlobsResolve(i, e)
  \/ \E e \in AllOutcomes : BlobFetch(i, e)
  \/ \E e \in CollaboratorOutcomes, t \in TemplateDocs \cup {"none"} :
       BlobReadAll(i, e, t)
  \/ \E e \in AllOutcomes : CreateOrUpdate(i, e)
  \/ WaitForCompletionRef(i, NilErr)
  \/ WaitForCompletionRef(i, CtxErr)
  \/ \E e \in CollaboratorOutcomes : Result(i, e)

NextFair ==
  \/ \E i \in Sequential, e \in CollaboratorOutcomes :
       DeployRecipe(i, GoodPath, e)
  \/ \E i \in Sequential : Step(i)
  \/ \E i \in Sequential, e \in CollaboratorErrors :
       WaitForCompletionRef(i, e)
  \/ \E n \in DOMAIN backend, res \in LiveResults : BackendComplete(n, res)
  \/ \E i \in Sequential : Cancel(i)
  \/ Tick

FairSpec ==
  Init /\ [][NextFair]_vars /\ \A i \in Sequential : WF_vars(Step(i))

\* Two invocations at once, for the same subscription and resource group
\* (backend holds the deployments of that one scope), each with a
\* well-formed reference, manifest and template.
NextConcurrent ==
  \/ \E i \in Invocations : DeployRecipe(i, GoodPath, NilErr)
  \/ \E i \in Invocations : Resolve(i, NilErr)
  \/ \E i \in Invocations : Fetch(i, NilErr)
  \/ \E i \in Invocations : ReadAll(i, NilErr, GoodDoc)
  \/ \E i \in Invocations : BlobsResolve(i, NilErr)
  \/ \E i \in Invocations : BlobFetch(i, NilErr)
  \/ \E i \in Invocations : BlobReadAll(i, NilErr, "object")
  \/ \E i \in Invocations : CreateOrUpdate(i, NilErr)
  \/ \E i \in Invocations : WaitForCompletionRef(i, NilErr)
  \/ \E i \in Invocations : Result(i, NilErr)
  \/ \E n \in DOMAIN backend, res \in ConcurrentResults :
       BackendComplete(n, res)
  \/ Tick

SpecConcurrent == Init /\ [][NextConcurrent]_vars

Finished(i) == inv[i].pc \in {"returned", "panicked"}

TypeOK ==
  /\ clock \in 0..MaxClock
  /\ \A i \in Invocations :
       /\ inv[i].pc \in {"idle", "Resolve", "Fetch", "ReadAll", "BlobsResolve",
                         "BlobFetch", "BlobReadAll", "CreateOrUpdate",
                         "WaitForCompletionRef", "Result", "returned",
                         "panicked"}
       /\ inv[i].templatePath \in TemplatePaths
       /\ inv[i].manifest \in ManifestDocs \cup {NoDoc}
       /\ inv[i].resp \in DeploymentResults
       /\ inv[i].ctxDone \in BOOLEAN
  /\ store \in StoredResources
  /\ \A q \in Requests :
       /\ del[q].pc \in {"idle", "Delete", "done"}
       /\ del[q].resp \in {"", "nil", "NoContent", "PreconditionFailed", "OK"}
  /\ conversion.pc \in {"src", "converted", "done", "failed", "panicked"}
  /\ conversion.src \in VersionedProperties

\* ----------------------------------- DeleteRabbitMQMessageQueue.Run, steps
\* the response and error Run returns
Respond(r, resp, err) == [r EXCEPT !.pc = "done", !.resp = resp, !.err = err]

\* GetResource with the result of ValidateETag ignored: Run goes on to the
\* storage Delete whether or not the precondition validates
GetResource_IgnoresValidation(q, err, valid) ==
  /\ del[q].pc = "idle"
  /\ err \in {NilErr, ErrNotFound, ErrStorage}
  /\ (err = ErrNotFound <=> ~store.exists) \/ err = ErrStorage
  /\ LET etag == IF err.nil THEN store.etag ELSE ""
         r == [del[q] EXCEPT !.getErr = err, !.etag = etag]
     IN del' = [del EXCEPT ![q] =
          IF ~err.nil
          THEN IF err = ErrNotFound
               THEN Respond(r, "NoContent", NilErr)
               ELSE Respond(r, "nil", err)
          ELSE IF etag = ""
          THEN Respond(r, "NoContent", NilErr)
          ELSE [r EXCEPT !.precondition = IF valid THEN "ok" ELSE "failed",
                         !.pc = "Delete"]]
  /\ UNCHANGED <<inv, clock, backend, store, conversion>>

\* Run up to the storage Delete: GetResource reads the stored resource (the
\* not-found error when there is none, its etag otherwise, or a fault),
\* then the etag is checked for emptiness and ValidateETag checks the
\* request's precondition against it (valid tells how that check ends).
GetResource(q, err, valid) ==
  /\ del[q].pc = "idle"
  /\ err \in {NilErr, ErrNotFound, ErrStorage}
  /\ (err = ErrNotFound <=> ~store.exists) \/ err = ErrStorage
  /\ LET etag == IF err.nil THEN store.etag ELSE ""
         r == [del[q] EXCEPT !.getErr = err, !.etag = etag]
     IN del' = [del EXCEPT ![q] =
          IF ~err.nil
          THEN IF err = ErrNotFound
               THEN Respond(r, "NoContent", NilErr)
               ELSE Respond(r, "nil", err)
          ELSE IF etag = ""
          THEN Respond(r, "NoContent", NilErr)
          ELSE IF ~valid
          THEN Respond([r EXCEPT !.precondition = "failed"],
                       "PreconditionFailed", NilErr)
          ELSE [r EXCEPT !.precondition = "ok", !.pc = "Delete"]]
  /\ UNCHANGED <<inv, clock, backend, store, conversion>>

\* Delete with a not-found from DataStore.Delete returned as the error
Delete_NotFoundIsError(q, err) ==
  /\ del[q].pc = "Delete"
  /\ err \in {NilErr, ErrNotFound, ErrStorage}
  /\ (err = ErrNotFound <=> ~store.exists) \/ err = ErrStorage
  /\ store' = IF err.nil THEN NoResource ELSE store
  /\ LET r == [del[q] EXCEPT !.deleteCalled = TRUE, !.delErr = err,
                              !.deleted = err.nil]
     IN del' = [del EXCEPT ![q] =
          IF ~err.nil
          THEN Respond(r, "nil", err)
          ELSE Respond(r, "OK", NilErr)]
  /\ UNCHANGED <<inv, clock, backend, conversion>>

\* Run from the storage Delete on: DataStore.Delete removes the resource,
\* reports not-found when there is none to remove, or fails with a fault
\* that leaves the store as it is.
Delete(q, err) ==
  /\ del[q].pc = "Delete"
  /\ err \in {NilErr, ErrNotFound, ErrStorage}
  /\ (err = ErrNotFound <=> ~store.exists) \/ err = ErrStorage
  /\ store' = IF err.nil THEN NoResource ELSE store
  /\ LET r == [del[q] EXCEPT !.deleteCalled = TRUE, !.delErr = err,
                              !.deleted = err.nil]
     IN del' = [del EXCEPT ![q] =
          IF ~err.nil
          THEN IF err = ErrNotFound
               THEN Respond(r, "NoContent", NilErr)
               ELSE Respond(r, "nil", err)
          ELSE Respond(r, "OK", NilErr)]
  /\ UNCHANGED <<inv, clock, backend, conversion>>

\* another client creates or replaces the stored resource
Put(etag) ==
  /\ store # [exists |-> TRUE, etag |-> etag]
  /\ store' = [exists |-> TRUE, etag |-> etag]
  /\ UNCHANGED <<inv, clock, backend, del, conversion>>

InitDelete ==
  /\ inv = [i \in Invocations |-> IdleInvocation]
  /\ clock = 0
  /\ backend = [n \in {} |-> [done |-> FALSE, submits |-> 0, result |-> NoResult]]
  /\ store \in StoredResources
  /\ del = [q \in Requests |-> IdleRequest]
  /\ conversion = IdleConversion

NextDelete ==
  \/ \E q \in Requests, e \in {NilErr, ErrNotFound, ErrStorage},
        v \in BOOLEAN : GetResource(q, e, v)
  \/ \E q \in Requests, e \in {NilErr, ErrNotFound, ErrStorage} : Delete(q, e)
  \/ \E t \in ETags \cup {""} : Put(t)

SpecDelete == InitDelete /\ [][NextDelete]_vars

\* ----------------------------------- DaprSecretStoreResource, conversion
\* ConvertTo: versioned resource to data model
ConvertTo ==
  /\ conversion.pc = "src"
  /\ LET v == conversion.src
         failed(msg) == [conversion EXCEPT !.pc = "failed", !.err = msg]
     IN conversion' =
          IF v.variant = "nil"
          THEN [conversion EXCEPT !.pc = "panicked"]
          ELSE IF v.variant = "values"
          THEN IF v.type = NilPtr \/ v.version = NilPtr \/ v.metadata = NilPtr
               THEN failed("type/version/metadata are required properties for mode 'values'")
               ELSE IF v.kind = NilPtr
               THEN [conversion EXCEPT !.pc = "panicked"]
               ELSE [conversion EXCEPT
                       !.pc = "converted",
                       !.dm = [ZeroDataModel EXCEPT
                                 !.type = String(v.type),
                                 !.version = String(v.version),
                                 !.metadata = v.metadata,
                                 !.mode = "Values",
                                 !.kind = toDaprSecretStoreKindDataModel(v.kind)]]
          ELSE IF v.variant = "recipe"
          THEN IF v.recipe = NilPtr
               THEN failed("recipe is a required property for mode 'recipe'")
               ELSE [conversion EXCEPT
                       !.pc = "converted",
                       !.dm = [ZeroDataModel EXCEPT
                                 !.recipe = toRecipeDataModel(v.recipe),
                                 !.type = String(v.type),
                                 !.version = String(v.version),
                                 !.metadata = v.metadata,
                                 !.mode = "Values"]]
          ELSE failed("Invalid Mode for DaprSecretStore")
  /\ UNCHANGED <<inv, clock, backend, store, del>>

\* ConvertFrom: data model to versioned resource
ConvertFrom ==
  /\ conversion.pc = "converted"
  /\ LET d == conversion.dm
     IN conversion' =
          [conversion EXCEPT
             !.pc = "done",
             !.dst =
               IF d.mode = "Values"
               THEN [variant |-> "values",
                     kind |-> fromDaprSecretStoreKindDataModel(d.kind),
                     type |-> StringPtr(d.type),
                     version |-> StringPtr(d.version),
                     metadata |-> d.metadata,
                     recipe |-> NilPtr]
               ELSE IF d.mode = "Recipe"
               THEN [variant |-> "recipe",
                     kind |-> NilPtr,
                     type |-> StringPtr(d.type),
                     version |-> StringPtr(d.version),
                     metadata |-> d.metadata,
                     recipe |-> IF d.recipe.name # ""
                                THEN fromRecipeDataModel(d.recipe)
                                ELSE NilPtr]
               ELSE conversion.dst]
  /\ UNCHANGED <<inv, clock, backend, store, del>>

InitConvert ==
  /\ inv = [i \in Invocations |-> IdleInvocation]
  /\ clock = 0
  /\ backend = [n \in {} |-> [done |-> FALSE, submits |-> 0, result |-> NoResult]]
  /\ store = NoResource
  /\ del = [q \in Requests |-> IdleRequest]
  /\ conversion \in {[IdleConversion EXCEPT !.src = p] : p \in VersionedProperties}

NextConvert ==
  \/ ConvertTo
  \/ ConvertFrom

SpecConvert == InitConvert /\ [][NextConvert]_vars

\* ------------------------------------------------------------------ claims
Last(q) == q[Len(q)]

InLog(i, call) == \E k \in 1..Len(inv[i].log) : inv[i].log[k] = call

HasColon(s) == \E k \in 1..Len(s) : s[k] = ":"

FirstColon(s) == CHOOSE j \in 1..Len(s) :
                   s[j] = ":" /\ \A m \in 1..(j-1) : s[m] # ":"

\* a reference without a colon, or with nothing before or after its first
\* colon
MalformedReference(s) ==
  \/ ~HasColon(s)
  \/ FirstColon(s) = 1
  \/ FirstColon(s) = Len(s)

RegistryCalls ==
  {"Resolve", "Fetch", "ReadAll", "BlobsResolve", "BlobFetch", "BlobReadAll"}

BackendCalls == {"CreateOrUpdate", "WaitForCompletionRef", "Result"}

\* C1: called with the empty reference, DeployRecipe returns an error (it
\* does not abort) and has made no registry or backend call.
C1_EmptyReferenceReturnsError ==
  \A i \in Invocations :
    (Finished(i) /\ inv[i].templatePath = <<>>) =>
      /\ inv[i].pc = "returned"
      /\ ~inv[i].ret.err.nil
      /\ inv[i].log = <<>>

\* C2: a reference without a colon, or with an empty repository or tag side,
\* makes DeployRecipe return an error before any registry resolve or fetch.
C2_MalformedReferenceReturnsError ==
  \A i \in Invocations :
    (Finished(i) /\ MalformedReference(inv[i].templatePath)) =>
      /\ inv[i].pc = "returned"
      /\ ~inv[i].ret.err.nil
      /\ \A c \in RegistryCalls \cup BackendCalls : ~InLog(i, c)

\* a manifest that is a JSON object without a usable, non-empty layers array
NoLayers(doc) ==
  doc.json = "object" /\ (doc.layers # "array" \/ doc.n = 0)

\* a manifest whose layers array has a first element that is not an object
\* with a string digest
BadFirstLayer(doc) ==
  /\ doc.json = "object" /\ doc.layers = "array" /\ doc.n > 0
  /\ (doc.first # "object" \/ doc.dig # "string")

\* C3: a manifest object with no layers member, a layers member that is not
\* an array, or an empty layers array yields a decode error, never an abort
\* and never an empty digest without an error.
C3_NoLayersIsDecodeError ==
  \A i \in Invocations :
    NoLayers(inv[i].manifest) =>
      /\ inv[i].pc = "returned"
      /\ ~inv[i].ret.err.nil
      /\ inv[i].digest = ""

\* C4: a manifest whose first layer is not an object, has no digest or has a
\* digest that is not a string yields a decode error and no digest, and no
\* blob resolve or fetch call follows.
C4_BadFirstLayerIsDecodeError ==
  \A i \in Invocations :
    BadFirstLayer(inv[i].manifest) =>
      /\ inv[i].pc = "returned"
      /\ inv[i].ret.ids = <<>>
      /\ inv[i].ret.err \in
           { Errorf("failed to fetch recipe manifest from registry ",
                    NewErr(<<m>>)) :
               m \in {"failed to decode the layers from manifest",
                      "failed to decode the layers digest from manifest"} }
      /\ inv[i].digest = ""
      /\ ~InLog(i, "BlobsResolve") /\ ~InLog(i, "BlobFetch")
      /\ ~InLog(i, "BlobReadAll")

C4_Witness ==
  \E i \in Invocations :
    /\ inv[i].pc = "returned"
    /\ inv[i].manifest.first = "object" /\ inv[i].manifest.dig = "number"
    /\ inv[i].manifest.n = 2

\* the result of a deployment was retrieved without an error
ResultRetrieved(i) ==
  /\ Finished(i)
  /\ Len(inv[i].log) > 0 /\ Last(inv[i].log) = "Result"
  /\ inv[i].err.nil

\* C5: every stage succeeded and the result is Succeeded with the list L of
\* output resources (of any length, empty or absent included): DeployRecipe
\* returns the identifiers of L in order, with no error, without aborting.
C5_SucceededReturnsList ==
  \A i \in Invocations :
    ( /\ ResultRetrieved(i)
      /\ inv[i].resp.props /\ inv[i].resp.state = "Succeeded"
      /\ \A k \in 1..Len(inv[i].resp.list) : inv[i].resp.list[k] # NilID ) =>
      /\ inv[i].pc = "returned"
      /\ inv[i].ret.err.nil
      /\ inv[i].ret.ids = inv[i].resp.list

\* C6: a retrieved result with a provisioning state other than Succeeded
\* makes DeployRecipe return no list and an error whose message carries the
\* name generated and submitted in this invocation, output resources or not.
C6_NotSucceededIsDeploymentFailed ==
  \A i \in Invocations :
    ( /\ ResultRetrieved(i)
      /\ inv[i].resp.props /\ inv[i].resp.state # "Succeeded" ) =>
      /\ inv[i].pc = "returned"
      /\ inv[i].ret.ids = <<>>
      /\ inv[i].ret.err = NewErr(<<"failed to deploy recipe - ">> \o inv[i].name)
      /\ inv[i].name \in DOMAIN backend
      /\ \E t \in 0..clock : inv[i].name = <<deplmtPrefix>> \o FormatInt(t)

C6_Witness ==
  \E i \in Invocations :
    /\ ResultRetrieved(i)
    /\ inv[i].resp.props /\ inv[i].resp.state = "Running"
    /\ inv[i].resp.present /\ Len(inv[i].resp.list) = 2
    /\ inv[i].name = <<"recipe", "1">>
    /\ inv[i].pc = "returned"

\* the blob stage failed: getRecipeBytes was entered and delivered no bytes
BlobStageFailed(i) ==
  /\ Finished(i)
  /\ Len(inv[i].log) > 0
  /\ Last(inv[i].log) \in {"BlobsResolve", "BlobFetch", "BlobReadAll"}
  /\ ~inv[i].err.nil
  /\ inv[i].recipe = "none"

\* C7: after a successful manifest resolution, a failure of the blob
\* resolve, fetch or read makes DeployRecipe return a registry error that
\* wraps the cause, and CreateOrUpdate is never called.
C7_BlobFailureStopsBeforeSubmit ==
  \A i \in Invocations :
    ( /\ inv[i].digest # ""
      /\ Len(inv[i].log) > 0
      /\ Last(inv[i].log) \in {"BlobsResolve", "BlobFetch", "BlobReadAll"}
      /\ ~inv[i].err.nil /\ inv[i].recipe = "none" ) =>
      /\ inv[i].pc = "returned"
      /\ inv[i].ret.ids = <<>>
      /\ inv[i].ret.err =
           NewErr(<<"failed to fetch recipe template from registry ">>
                    \o inv[i].err.msg)
      /\ \A c \in BackendCalls : ~InLog(i, c)
      /\ inv[i].name = <<>>
      /\ inv[i].name \notin DOMAIN backend

C7_Witness ==
  \E i \in Invocations :
    /\ BlobStageFailed(i)
    /\ Last(inv[i].log) = "BlobReadAll"
    /\ inv[i].bOpen = 1
    /\ inv[i].err = NewErr(<<"transport error">>)

\* C8: an invocation that returns yields either an error and no identifiers,
\* or no error and the whole output-resource list of the terminal result.
C8_ErrorOrCompleteList ==
  \A i \in Invocations :
    inv[i].pc = "returned" =>
      \/ ~inv[i].ret.err.nil /\ inv[i].ret.ids = <<>>
      \/ /\ inv[i].ret.err.nil
         /\ Last(inv[i].log) = "Result"
         /\ inv[i].name \in DOMAIN backend
         /\ backend[inv[i].name].done
         /\ inv[i].ret.ids = backend[inv[i].name].result.list

C8_Witness ==
  \E i \in Invocations :
    /\ inv[i].pc = "returned"
    /\ inv[i].ret.err.nil
    /\ Len(inv[i].ret.ids) = 2
    /\ inv[i].ret.ids[1] # inv[i].ret.ids[2]

StagePrefixes ==
  {"templatePath cannot be empty",
   "failed to create client to registry ",
   "failed to fetch recipe manifest from registry ",
   "failed to fetch recipe template from registry ",
   "failed to deploy recipe - "}

\* C9 as stated: the error of every failed stage comes back wrapped in a
\* message that identifies the stage.
C9_EveryStageWraps ==
  \A i \in Invocations :
    (inv[i].pc = "returned" /\ ~inv[i].ret.err.nil) =>
      /\ Len(inv[i].ret.err.msg) > 0
      /\ inv[i].ret.err.msg[1] \in StagePrefixes

\* the error DeployRecipe returns when the stage of the last call fails
\* with the error err
ExpectedError(i) ==
  LET stage == Last(inv[i].log)
      err == inv[i].err
  IN CASE stage = "NewRepository" ->
            Errorf("failed to create client to registry ", err)
       [] stage \in {"Resolve", "Fetch", "ReadAll"} ->
            Errorf("failed to fetch recipe manifest from registry ", err)
       [] stage \in {"BlobsResolve", "BlobFetch"} ->
            Errorf("failed to fetch recipe template from registry ", err)
       [] stage = "BlobReadAll" ->
            IF inv[i].recipe = "none"
            THEN Errorf("failed to fetch recipe template from registry ", err)
            ELSE err
       [] stage \in {"CreateOrUpdate", "WaitForCompletionRef"} -> err
       [] stage = "Result" ->
            IF err.nil
            THEN NewErr(<<"failed to deploy recipe - ">> \o inv[i].name)
            ELSE err

\* C9, amended: no failure is swallowed; the failures of the client
\* creation, the manifest stage and the blob fetch come back wrapped in a
\* stage message followed by the cause's text, a provisioning state other
\* than Succeeded comes back as a message naming the deployment, and the
\* failures of the template decode, the submission, the wait and the result
\* retrieval come back as the callee's own error, unwrapped.
C9_WrappedOrBare ==
  \A i \in Invocations :
    /\ ~inv[i].err.nil =>
         inv[i].pc = "returned" /\ ~inv[i].ret.err.nil
    /\ (inv[i].pc = "returned" /\ ~inv[i].ret.err.nil) =>
         /\ Len(inv[i].log) > 0
         /\ inv[i].ret.err = ExpectedError(i)
         /\ (~inv[i].err.nil =>
               \E k \in 0..Len(inv[i].ret.err.msg) :
                 SubSeq(inv[i].ret.err.msg, k + 1, Len(inv[i].ret.err.msg))
                   = inv[i].err.msg)

C9_Witness ==
  \E i \in Invocations :
    /\ inv[i].pc = "returned"
    /\ Last(inv[i].log) = "WaitForCompletionRef"
    /\ inv[i].ret.err = NewErr(<<"transport error">>)

\* C10: a stream opened by a successful Fetch is closed exactly once when
\* its function is left, however it is left, and none is open when
\* DeployRecipe is over.
C10_StreamsClosedOnce ==
  \A i \in Invocations :
    /\ inv[i].mClose <= inv[i].mOpen /\ inv[i].mOpen <= 1
    /\ inv[i].bClose <= inv[i].bOpen /\ inv[i].bOpen <= 1
    /\ inv[i].pc # "ReadAll" => inv[i].mClose = inv[i].mOpen
    /\ inv[i].pc = "ReadAll" => inv[i].mOpen = 1 /\ inv[i].mClose = 0
    /\ inv[i].pc # "BlobReadAll" => inv[i].bClose = inv[i].bOpen
    /\ inv[i].pc = "BlobReadAll" => inv[i].bOpen = 1 /\ inv[i].bClose = 0
    /\ InLog(i, "ReadAll") => inv[i].mClose = 1
    /\ InLog(i, "BlobReadAll") => inv[i].bClose = 1

C10_Witness ==
  \E i \in Invocations :
    /\ inv[i].pc = "panicked"
    /\ NoLayers(inv[i].manifest)
    /\ inv[i].mOpen = 1 /\ inv[i].mClose = 1

\* C11: two invocations for the same subscription and resource group never
\* pass the same deployment name to CreateOrUpdate, whatever the
\* interleaving and whatever the clock shows them.
C11_DeploymentNamesDiffer ==
  \A i, j \in Invocations :
    (i # j /\ InLog(i, "CreateOrUpdate") /\ InLog(j, "CreateOrUpdate")) =>
      inv[i].name # inv[j].name

\* the steps of DeployRecipe that block in a call that was given ctx
CtxSteps ==
  {"Resolve", "Fetch", "BlobsResolve", "BlobFetch", "CreateOrUpdate",
   "WaitForCompletionRef"}

EndsWith(msg, tail) ==
  /\ Len(msg) >= Len(tail)
  /\ SubSeq(msg, Len(msg) - Len(tail) + 1, Len(msg)) = tail

\* C12: the caller's cancellation reaches every blocking step (a step taken
\* with a cancelled context ends the invocation with the context's error,
\* no list, and the backend untouched), and a cancellation during the
\* completion wait leads to the return of the cancellation error with no
\* list, the submitted deployment left in the backend.
C12_CancellationPropagates ==
  /\ [][\A i \in Invocations :
          (inv[i].ctxDone /\ inv[i].pc \in CtxSteps /\ inv'[i] # inv[i]) =>
            /\ inv'[i].pc = "returned"
            /\ inv'[i].ret.ids = <<>>
            /\ ~inv'[i].ret.err.nil
            /\ EndsWith(inv'[i].ret.err.msg, CtxErr.msg)
            /\ Last(inv'[i].log) = inv[i].pc
            /\ backend' = backend]_vars
  /\ \A i \in Sequential :
       (inv[i].ctxDone /\ inv[i].pc = "WaitForCompletionRef")
         ~> ( /\ inv[i].pc = "returned"
              /\ inv[i].ret = [ids |-> <<>>, err |-> CtxErr]
              /\ Last(inv[i].log) = "WaitForCompletionRef"
              /\ inv[i].name \in DOMAIN backend )

C12_Witness ==
  \E i \in Invocations :
    /\ inv[i].pc = "returned"
    /\ inv[i].ctxDone
    /\ Last(inv[i].log) = "WaitForCompletionRef"
    /\ inv[i].ret = [ids |-> <<>>, err |-> CtxErr]
    /\ inv[i].name \in DOMAIN backend
    /\ ~backend[inv[i].name].done

\* C13: for a reference with text on both sides of its first colon, the
\* repository is the text before the first colon and the tag all the text
\* after it, so that repository, colon and tag spell the reference again.
C13_SplitsOnFirstColonOnly ==
  \A i \in Invocations :
    (inv[i].pc # "idle" /\ ~MalformedReference(inv[i].templatePath)) =>
      LET p == inv[i].templatePath
          k == FirstColon(p)
      IN /\ inv[i].registryRepo = SubSeq(p, 1, k - 1)
         /\ inv[i].tag = SubSeq(p, k + 1, Len(p))
         /\ inv[i].registryRepo \o <<":">> \o inv[i].tag = p

\* the collaborator calls of one invocation, in the order of the pipeline
StageOrder ==
  <<"NewRepository", "Resolve", "Fetch", "ReadAll", "BlobsResolve",
    "BlobFetch", "BlobReadAll", "CreateOrUpdate", "WaitForCompletionRef",
    "Result">>

IsPrefix(p, q) == Len(p) <= Len(q) /\ SubSeq(q, 1, Len(p)) = p

\* C14: the calls of an invocation are made in the pipeline's order, each
\* at most once; a call is made only after the call before it succeeded
\* (the blob calls only with the digest decoded from the manifest, the
\* backend calls only with a decoded template), and a list is returned only
\* at the end of the whole pipeline.
C14_StagesInOrderAtMostOnce ==
  /\ [](\A i \in Invocations :
          /\ IsPrefix(inv[i].log, StageOrder)
          /\ InLog(i, "BlobsResolve") =>
               /\ layerDigest(inv[i].manifest).kind = "ok"
               /\ inv[i].digest = inv[i].manifest.digVal
          /\ InLog(i, "CreateOrUpdate") =>
               /\ inv[i].recipe \in TemplateDocs
               /\ jsonUnmarshal(inv[i].recipe).nil
          /\ (inv[i].pc = "returned" /\ inv[i].ret.err.nil) =>
               inv[i].log = StageOrder)
  /\ [][\A i \in Invocations :
          inv'[i].log # inv[i].log =>
            /\ ~Finished(i)
            /\ inv[i].err.nil
            /\ Len(inv[i].log) < Len(StageOrder)
            /\ inv'[i].log = Append(inv[i].log, StageOrder[Len(inv[i].log) + 1])
       ]_vars

C14_Witness ==
  \E i \in Invocations :
    /\ inv[i].pc = "returned"
    /\ inv[i].log = StageOrder
    /\ inv[i].ret.err.nil

\* C15: the result is retrieved only after the completion wait has returned
\* for a finished operation, a list is returned only for an operation that
\* ended as Succeeded, and once the backend has brought the awaited
\* operation to its end, DeployRecipe returns.
C15_ReturnsAfterTerminalState ==
  /\ [](\A i \in Invocations :
          /\ InLog(i, "Result") =>
               /\ InLog(i, "WaitForCompletionRef")
               /\ inv[i].name \in DOMAIN backend
               /\ backend[inv[i].name].done
          /\ (inv[i].pc = "returned" /\ inv[i].ret.err.nil) =>
               /\ backend[inv[i].name].done
               /\ backend[inv[i].name].result.state = "Succeeded")
  /\ \A i \in Sequential :
       (inv[i].pc = "WaitForCompletionRef" /\ backend[inv[i].name].done)
         ~> (inv[i].pc = "returned")

\* C16: Run answers 204 NoContent with no error when the resource is absent
\* at the read (not-found, or an empty etag) or has gone by the time of the
\* storage Delete (Delete reports not-found); it answers 200 OK only when
\* its own storage Delete removed the resource; any other storage error is
\* returned as the error, with no response.
C16_DeleteIsIdempotent ==
  \A q \in Requests :
    del[q].pc = "done" =>
      /\ (del[q].getErr = ErrNotFound \/ (del[q].getErr.nil /\ del[q].etag = ""))
           => /\ del[q].resp = "NoContent" /\ del[q].err.nil
              /\ ~del[q].deleteCalled
      /\ (del[q].deleteCalled /\ del[q].delErr = ErrNotFound)
           => del[q].resp = "NoContent" /\ del[q].err.nil
      /\ del[q].resp = "OK"
           <=> del[q].deleteCalled /\ del[q].delErr.nil /\ del[q].deleted
      /\ del[q].resp = "OK" => del[q].err.nil
      /\ del[q].getErr = ErrStorage
           => del[q].resp = "nil" /\ del[q].err = ErrStorage
      /\ (del[q].deleteCalled /\ del[q].delErr = ErrStorage)
           => del[q].resp = "nil" /\ del[q].err = ErrStorage
      /\ ~del[q].err.nil => del[q].resp = "nil"

\* both requests read the resource, one removes it, the other's Delete
\* finds it gone
C16_Witness ==
  /\ del[1].pc = "done" /\ del[2].pc = "done"
  /\ del[1].resp = "OK" /\ del[1].deleted
  /\ del[2].resp = "NoContent" /\ del[2].deleteCalled
  /\ del[2].delErr = ErrNotFound /\ del[2].etag # ""

\* C17: when the resource is read with a non-empty etag and the request's
\* precondition does not validate against it, Run answers 412
\* PreconditionFailed, never calls the storage Delete and leaves the stored
\* resource as it is.
C17_PreconditionFailedDeletesNothing ==
  /\ [](\A q \in Requests :
          (del[q].pc # "idle" /\ del[q].getErr.nil /\ del[q].etag # ""
             /\ del[q].precondition = "failed") =>
            /\ del[q].pc = "done"
            /\ del[q].resp = "PreconditionFailed"
            /\ del[q].err.nil
            /\ ~del[q].deleteCalled /\ ~del[q].deleted)
  /\ [][\A q \in Requests :
          (del'[q].precondition = "failed" /\ del[q].precondition # "failed")
            => store' = store /\ store.exists /\ store.etag = del'[q].etag
       ]_vars

C17_Witness ==
  \E q \in Requests :
    /\ del[q].pc = "done"
    /\ del[q].resp = "PreconditionFailed"
    /\ store = [exists |-> TRUE, etag |-> del[q].etag]

\* C18: the conversion preserves the properties mode: ConvertTo gives data
\* model mode Values for values-mode properties and mode Recipe for
\* recipe-mode properties with a non-nil recipe, and ConvertTo followed by
\* ConvertFrom gives properties of the same variant as the original, with
\* the recipe retained for recipe mode.
C18_ConversionPreservesMode ==
  /\ conversion.pc \in {"converted", "done"} =>
       /\ conversion.src.variant = "values" => conversion.dm.mode = "Values"
       /\ (conversion.src.variant = "recipe" /\ conversion.src.recipe # NilPtr)
            => conversion.dm.mode = "Recipe"
  /\ conversion.pc = "done" =>
       /\ conversion.dst.variant = conversion.src.variant
       /\ conversion.src.variant = "recipe" => conversion.dst.recipe # NilPtr

====
